---- MODULE Spec2Model ----
(***************************************************************************)
(* Model of src/hydromet.py: the Streamlit script that loads three station *)
(* tables (meteorology, water quality, hydrology), cleans them behind      *)
(* st.cache_data, and composes a folium map from the sidebar widgets.      *)
(*                                                                         *)
(* Conventions                                                             *)
(*   - a string that the code inspects character by character (station     *)
(*     names, the search box, coordinate text) is a sequence of one        *)
(*     character strings;                                                  *)
(*   - a file name is a sequence of name fragments ("meteorology", ".csv", *)
(*     ...); no fragment is a substring of another, so fnmatch on          *)
(*     characters and on fragments agree;                                  *)
(*   - latitudes and longitudes of stations are whole degrees;             *)
(*   - Python's None / "no value" is the empty sequence <<>>, a value v    *)
(*     that is present is <<v>>.                                           *)
(***************************************************************************)
EXTENDS Integers, Sequences, FiniteSets, TLC

VARIABLES
    fs,            \* the files on disk: a function from the paths that exist to their tables
    cache,         \* st.cache_data's entry for load_and_process_data: <<>> or <<bundle>>
    widgets,       \* the session's widget values (the sidebar)
    reported,      \* the viewport st_folium reported when the user last moved the map
    event,         \* what happened last: "start", "run" (a script run) or "files"
    status,        \* outcome of the last script run: "none", "ok" or "error" (st.error)
    result,        \* (met_df, water_df, hydro_df) of the last run: <<>> or <<bundle>>
    pipeline_ran,  \* whether the last run executed the body of load_and_process_data
    loads,         \* how many times the body of load_and_process_data has executed
    scene,         \* what the last run handed to st_folium: the station items of the map
    map_init,      \* location/zoom_start the last run gave to folium.Map
    probe          \* the last direct find_file call: <<>> or <<[patterns, found]>>

vars == <<fs, cache, widgets, reported, event, status, result, pipeline_ran, loads,
          scene, map_init, probe>>

(***************************************************************************)
(* Sequences helpers                                                       *)
(***************************************************************************)
Range(s) == {s[i] : i \in 1..Len(s)}

SeqsUpTo(S, n) == UNION {[1..k -> S] : k \in 0..n}

(***************************************************************************)
(* find_file: glob over the ordered directories, pattern by pattern        *)
(***************************************************************************)
STAR == "*"

SearchDirs == <<".", "data">>

RECURSIVE fnmatch(_, _)
\* fnmatch(name, pattern): "*" matches any run of fragments, anything else itself
fnmatch(name, pat) ==
    IF pat = <<>> THEN name = <<>>
    ELSE IF Head(pat) = STAR
         THEN \/ fnmatch(name, Tail(pat))
              \/ name # <<>> /\ fnmatch(Tail(name), pat)
         ELSE /\ name # <<>>
              /\ Head(name) = Head(pat)
              /\ fnmatch(Tail(name), Tail(pat))

\* glob.glob(os.path.join(d, pattern)): the existing paths of directory d that match
glob(d, pattern, paths) ==
    {p \in paths : p.dir = d /\ fnmatch(p.name, pattern)}

RECURSIVE find_in_dirs(_, _, _)
\* the inner loop "for d in [".", "data"]" for one pattern: the candidates for matches[0]
find_in_dirs(pattern, dirs, paths) ==
    IF dirs = <<>> THEN {}
    ELSE LET matches == glob(Head(dirs), pattern, paths)
         IN  IF matches # {} THEN matches
             ELSE find_in_dirs(pattern, Tail(dirs), paths)

RECURSIVE find_in_patterns_first(_, _, _)
find_in_patterns_first(patterns, d, paths) ==
    IF patterns = <<>> THEN {}
    ELSE LET matches == glob(d, Head(patterns), paths)
         IN  IF matches # {} THEN matches
             ELSE find_in_patterns_first(Tail(patterns), d, paths)

RECURSIVE find_file_dir_major(_, _, _)
\* find_file with the two loops swapped: directories outside, patterns inside
find_file_dir_major(patterns, dirs, paths) ==
    IF dirs = <<>> THEN {<<>>}
    ELSE LET matches == find_in_patterns_first(patterns, Head(dirs), paths)
         IN  IF matches # {} THEN {<<p>> : p \in matches}
             ELSE find_file_dir_major(patterns, Tail(dirs), paths)

RECURSIVE find_file_loop(_, _, _)
find_file_loop(patterns, dirs, paths) ==
    IF patterns = <<>> THEN {<<>>}
    ELSE LET matches == find_in_dirs(Head(patterns), dirs, paths)
         IN  IF matches # {} THEN {<<p>> : p \in matches}
             ELSE find_file_loop(Tail(patterns), dirs, paths)

\* find_file(patterns): every value it can return on the files `paths`.  glob lists a
\* directory in no particular order, so matches[0] is any match of the winning glob.
find_file(patterns, dirs, paths) == find_file_loop(patterns, dirs, paths)

(***************************************************************************)
(* Tables: what pd.read_csv / pd.read_excel hand back                      *)
(***************************************************************************)
\* a cell of a raw table: a number, a piece of text, or an empty cell (NaN)
Num(n) == [k |-> "num", n |-> n, s |-> <<>>]
Text(s) == [k |-> "text", n |-> 0, s |-> s]
Blank == [k |-> "blank", n |-> 0, s |-> <<>>]

\* pd.DataFrame(): no columns, no rows
EmptyFrame == [cols |-> {}, rows |-> <<>>]

\* df.empty: an axis of length 0
IsEmpty(df) == df.cols = {} \/ df.rows = <<>>

\* the column mappings of the three .rename(columns=...) calls
MetColumns == [STATIONS |-> "name", LON |-> "lon", LAT |-> "lat", ALTITUDE |-> "altitude"]
WaterColumns == [STATIONS |-> "name", LON |-> "lon", LAT |-> "lat", Province |-> "province"]
HydroColumns == [STATIONS |-> "name", LON |-> "lon", LAT |-> "lat"]

RenamedCol(mapping, c) == IF c \in DOMAIN mapping THEN mapping[c] ELSE c

\* DataFrame.rename(columns=mapping): exact, case-sensitive header match; headers the
\* mapping does not name are kept.  (Tables here never hold both a header and its
\* canonical name, so the renamed headers stay distinct.)
rename(df, mapping) ==
    LET newcols == {RenamedCol(mapping, c) : c \in df.cols}
        old(c2) == CHOOSE c \in df.cols : RenamedCol(mapping, c) = c2
    IN  [cols |-> newcols,
         rows |-> [i \in 1..Len(df.rows) |-> [c2 \in newcols |-> df.rows[i][old(c2)]]]]

(***************************************************************************)
(* read_flexible                                                           *)
(***************************************************************************)
XLSX == ".xlsx"
CSV == ".csv"

\* find_file([f"*{pattern}*.xlsx", f"*{pattern}*.csv"])
FlexiblePatterns(pattern) == <<  <<STAR, pattern, STAR, XLSX>>, <<STAR, pattern, STAR, CSV>>  >>

\* read_flexible(pattern): every frame it can return on the files `files`.  The reader
\* (read_csv for a path ending in .csv, read_excel otherwise) hands back the file's table.
read_flexible(pattern, files) ==
    {IF found = <<>> THEN EmptyFrame ELSE files[found[1]] :
        found \in find_file(FlexiblePatterns(pattern), SearchDirs, DOMAIN files)}

(***************************************************************************)
(* Cleaning loop of load_and_process_data (lines 75-80)                    *)
(***************************************************************************)
Whitespace == {" ", "\n", "\t"}
Digits == <<"0", "1", "2", "3", "4", "5", "6", "7", "8", "9">>

DigitValue(c) == (CHOOSE i \in 1..10 : Digits[i] = c) - 1

RECURSIVE DigitsValue(_)
DigitsValue(s) ==
    IF s = <<>> THEN 0
    ELSE 10 * DigitsValue(SubSeq(s, 1, Len(s) - 1)) + DigitValue(s[Len(s)])

RECURSIVE ToDigits(_)
ToDigits(n) == IF n < 10 THEN <<Digits[n + 1]>> ELSE ToDigits(n \div 10) \o <<Digits[(n % 10) + 1]>>

\* .astype(str) on one cell
astype_str(cell) ==
    CASE cell.k = "text" -> cell.s
      [] cell.k = "blank" -> <<"n", "a", "n">>
      [] cell.k = "num" -> IF cell.n < 0 THEN <<"-">> \o ToDigits(-cell.n) ELSE ToDigits(cell.n)

\* .str.replace(r"\n", "", regex=True)
RemoveNewlines(s) == SelectSeq(s, LAMBDA c : c # "\n")

RECURSIVE lstrip(_)
lstrip(s) == IF s # <<>> /\ Head(s) \in Whitespace THEN lstrip(Tail(s)) ELSE s

RECURSIVE rstrip(_)
rstrip(s) ==
    IF s # <<>> /\ s[Len(s)] \in Whitespace THEN rstrip(SubSeq(s, 1, Len(s) - 1)) ELSE s

\* .str.strip()
strip(s) == rstrip(lstrip(s))

CleanName(cell) == strip(RemoveNewlines(astype_str(cell)))

\* a parsed coordinate: a float or NaN
NaN == [nan |-> TRUE, v |-> 0]
Float(v) == [nan |-> FALSE, v |-> v]

IsDigits(s) == s # <<>> /\ \A i \in 1..Len(s) : s[i] \in Range(Digits)

\* the text forms of numbers over the characters used here: digits with an optional sign,
\* surrounding whitespace ignored
ParseText(s) ==
    LET t == strip(s)
    IN  IF IsDigits(t) THEN Float(DigitsValue(t))
        ELSE IF t # <<>> /\ Head(t) = "-" /\ IsDigits(Tail(t)) THEN Float(-DigitsValue(Tail(t)))
        ELSE NaN

\* pd.to_numeric(..., errors="coerce") on one cell: numbers pass, text is parsed, what
\* cannot be parsed and empty cells become NaN.  No range is applied.
to_numeric(cell) ==
    CASE cell.k = "num" -> Float(cell.n)
      [] cell.k = "text" -> ParseText(cell.s)
      [] cell.k = "blank" -> NaN

\* the body of the loop for one non-empty frame whose three columns exist
CleanRows(df) ==
    LET coerced == [i \in 1..Len(df.rows) |->
                      [c \in df.cols |->
                          CASE c = "name" -> CleanName(df.rows[i][c])
                            [] c = "lat" -> to_numeric(df.rows[i][c])
                            [] c = "lon" -> to_numeric(df.rows[i][c])
                            [] OTHER -> df.rows[i][c]]]
        \* dropna(subset=["lat", "lon"], inplace=True)
        kept == SelectSeq(coerced, LAMBDA r : ~r["lat"].nan /\ ~r["lon"].nan)
    IN  [cols |-> df.cols,
         rows |-> [i \in 1..Len(kept) |->
                     [c \in df.cols |->
                         IF c \in {"lat", "lon"} THEN kept[i][c].v ELSE kept[i][c]]]]

\* df["name"], df["lat"], df["lon"] raise KeyError when the column is missing
RaisesKeyError(df) == ~IsEmpty(df) /\ ~({"name", "lat", "lon"} \subseteq df.cols)

\* one iteration of "for df in [met, water, hydro]"
clean(df) == IF IsEmpty(df) THEN df ELSE CleanRows(df)

(***************************************************************************)
(* load_and_process_data                                                   *)
(***************************************************************************)
Categories == <<"met", "water", "hydro">>

\* the body of load_and_process_data on the files `files`: every outcome it can have,
\* <<>> when it raises, <<bundle>> when it returns (met, water, hydro)
load_and_process_data(files) ==
    {LET met == rename(m, MetColumns)
         water == rename(w, WaterColumns)
         hydro == rename(h, HydroColumns)
     IN  IF RaisesKeyError(met) \/ RaisesKeyError(water) \/ RaisesKeyError(hydro)
         THEN <<>>
         ELSE << [met |-> clean(met), water |-> clean(water), hydro |-> clean(hydro)] >> :
        m \in read_flexible("meteorology", files),
        w \in read_flexible("water quality", files),
        h \in read_flexible("hydrology", files)}

\* a cache whose lookup never finds the entry
CacheNeverHits(entry) == FALSE

\* @st.cache_data on a function without arguments: a hit whenever the entry exists
CacheHit(entry) == entry # <<>>

(***************************************************************************)
(* Sidebar widgets                                                         *)
(***************************************************************************)
MarkerStyles == {"Classic (FontAwesome)", "Circle (Clean)", "Circle (Filled)", "Minimal Dot"}

DefaultMarkerSize == 10
DefaultRadiusKm == 30
DefaultRadiusColor == "#3498db"

\* the widgets' initial values (lines 106-129)
DefaultWidgets ==
    [disable_clustering |-> FALSE,
     show_names |-> FALSE,
     search |-> <<>>,
     marker_size |-> DefaultMarkerSize,
     marker_style |-> "Classic (FontAwesome)",
     show_met |-> TRUE,
     met_radius_on |-> FALSE,
     met_rad_km |-> DefaultRadiusKm,
     show_water |-> TRUE,
     show_hydro |-> TRUE]

\* the checkbox and the slider of lines 122-125 exist only while their parent is on; a
\* widget that a run does not create loses its value and restarts from its default
LiveWidgets(w) ==
    LET radius_on == w.show_met /\ w.met_radius_on
    IN  [w EXCEPT !.met_radius_on = radius_on,
                  !.met_rad_km = IF radius_on THEN w.met_rad_km ELSE DefaultRadiusKm]

LowerCase(c) ==
    CASE c = "A" -> "a"
      [] c = "B" -> "b"
      [] OTHER -> c

\* str.lower()
lower(s) == [i \in 1..Len(s) |-> LowerCase(s[i])]

\* search_query = st.text_input(...).strip().lower()
search_query(w) == lower(strip(w.search))

(***************************************************************************)
(* add_layer                                                               *)
(***************************************************************************)
\* re.compile of the search term: over the characters used here the only way to fail is
\* an opening parenthesis, which nothing closes
RegexCompiles(term) == "(" \notin Range(term)

\* re.search(term, text) for a term that compiles: "." is any character but a newline,
\* every other character is itself
RegexSearch(term, text) ==
    \E off \in 0..(Len(text) - Len(term)) :
        \A i \in 1..Len(term) :
            \/ term[i] = "." /\ text[off + i] # "\n"
            \/ term[i] # "." /\ term[i] = text[off + i]

\* the term as a literal: text contains it as a substring
LiteralSearch(term, text) ==
    \E off \in 0..(Len(text) - Len(term)) :
        \A i \in 1..Len(term) : term[i] = text[off + i]

Max(a, b) == IF a >= b THEN a ELSE b

\* the marker of one row, by marker_style (lines 178-220)
MarkerItem(row, color, icon, label, parent, w) ==
    [kind |-> IF w.marker_style = "Classic (FontAwesome)" THEN "Marker" ELSE "CircleMarker",
     net |-> label,
     parent |-> parent,
     station |-> row["name"],
     tooltip |-> IF w.show_names THEN <<row["name"]>> ELSE <<>>,
     lat |-> row["lat"],
     lon |-> row["lon"],
     radius |-> CASE w.marker_style = "Classic (FontAwesome)" -> 0
                  [] w.marker_style = "Minimal Dot" -> Max(3, w.marker_size \div 2)
                  [] OTHER -> w.marker_size,
     color |-> color,
     icon |-> IF w.marker_style = "Classic (FontAwesome)" THEN icon ELSE "",
     style |-> w.marker_style]

\* the coverage circle of one meteorology row (lines 166-175), added to the map itself
CircleItem(row, label, w) ==
    [kind |-> "Circle",
     net |-> label,
     parent |-> "map",
     station |-> row["name"],
     tooltip |-> <<>>,
     lat |-> row["lat"],
     lon |-> row["lon"],
     radius |-> w.met_rad_km * 1000,
     color |-> DefaultRadiusColor,
     icon |-> "",
     style |-> "Coverage"]

\* MarkerCluster(name=label).add_to(m)
ClusterItem(label) ==
    [kind |-> "MarkerCluster", net |-> label, parent |-> "map", station |-> <<>>,
     tooltip |-> <<>>, lat |-> 0, lon |-> 0, radius |-> 0, color |-> "", icon |-> "",
     style |-> "Cluster"]

RECURSIVE RowItems(_, _, _, _, _, _, _)
\* the loop "for _, row in data.iterrows()"
RowItems(rows, color, icon, label, is_met, parent, w) ==
    IF rows = <<>> THEN <<>>
    ELSE (IF is_met /\ w.met_radius_on THEN <<CircleItem(Head(rows), label, w)>> ELSE <<>>)
         \o <<MarkerItem(Head(rows), color, icon, label, parent, w)>>
         \o RowItems(Tail(rows), color, icon, label, is_met, parent, w)

\* the rows add_layer keeps: data[data["name"].str.lower().str.contains(search_query)],
\* where str.contains takes its argument as a regular expression
FilterRows(rows, term) ==
    IF term = <<>> THEN rows
    ELSE SelectSeq(rows, LAMBDA r : RegexSearch(term, lower(r["name"])))

\* add_layer(df, color, icon, label, is_met): raised, and the items it added to the map
add_layer(df, color, icon, label, is_met, w) ==
    IF IsEmpty(df) THEN [raised |-> FALSE, items |-> <<>>]
    ELSE IF search_query(w) # <<>> /\ ~RegexCompiles(search_query(w))
    THEN [raised |-> TRUE, items |-> <<>>]
    ELSE LET data == FilterRows(df.rows, search_query(w))
             parent == IF w.disable_clustering THEN "map" ELSE label
         IN  [raised |-> FALSE,
              items |-> (IF w.disable_clustering THEN <<>> ELSE <<ClusterItem(label)>>)
                        \o RowItems(data, color, icon, label, is_met, parent, w)]

\* what add_layer leaves in the frame it was given, had it filtered df itself
FrameFilteredInPlace(df, w) ==
    IF IsEmpty(df) \/ search_query(w) = <<>> \/ ~RegexCompiles(search_query(w)) THEN df
    ELSE [df EXCEPT !.rows = FilterRows(df.rows, search_query(w))]

\* what add_layer leaves in the frame it was given: it works on df.copy()
FrameAfterLayer(df, w) == df

Layers ==
    [met |-> [color |-> "blue", icon |-> "cloud", label |-> "Meteorology", is_met |-> TRUE],
     water |-> [color |-> "green", icon |-> "tint", label |-> "Water Quality", is_met |-> FALSE],
     hydro |-> [color |-> "red", icon |-> "water", label |-> "Hydrology", is_met |-> FALSE]]

\* the dispatch with every layer behind the first toggle
LayersBehindOneToggle(w) == SelectSeq(Categories, LAMBDA c : w.show_met)

\* the dispatch of lines 222-227: the categories add_layer is called for, in order
VisibleLayers(w) ==
    SelectSeq(Categories, LAMBDA c :
        CASE c = "met" -> w.show_met
          [] c = "water" -> w.show_water
          [] c = "hydro" -> w.show_hydro)

RECURSIVE ComposeLayers(_, _, _)
\* the add_layer calls in order; an exception ends the run before st_folium
ComposeLayers(cats, bundle, w) ==
    IF cats = <<>> THEN [raised |-> FALSE, items |-> <<>>, bundle |-> bundle]
    ELSE LET c == Head(cats)
             L == Layers[c]
             one == add_layer(bundle[c], L.color, L.icon, L.label, L.is_met, w)
             after == [bundle EXCEPT ![c] = FrameAfterLayer(bundle[c], w)]
         IN  IF one.raised THEN [raised |-> TRUE, items |-> <<>>, bundle |-> after]
             ELSE LET rest == ComposeLayers(Tail(cats), after, w)
                  IN  [raised |-> rest.raised,
                       items |-> IF rest.raised THEN <<>> ELSE one.items \o rest.items,
                       bundle |-> rest.bundle]

\* folium.Map(location=[16.46, 107.59], zoom_start=6): hundredths of a degree
DefaultView == [lat |-> 1646, lon |-> 10759, zoom |-> 6]

(***************************************************************************)
(* Inputs: the files, tables and widget values the runs are explored over  *)
(***************************************************************************)
MetCsvHere == [dir |-> ".", name |-> <<"meteorology", CSV>>]
MetXlsxData == [dir |-> "data", name |-> <<"meteorology", XLSX>>]
WaterHere == [dir |-> ".", name |-> <<"water quality", XLSX>>]
HydroData == [dir |-> "data", name |-> <<"hydrology", CSV>>]

AppPaths == {MetCsvHere, MetXlsxData, WaterHere, HydroData}

RawRow(name, lat, lon) == [STATIONS |-> Text(name), LAT |-> lat, LON |-> lon]

\* two valid stations; one name carries whitespace and a line break, one latitude is text
StationsOK ==
    [cols |-> {"STATIONS", "LAT", "LON"},
     rows |-> << RawRow(<<"A", "b">>, Num(21), Num(105)),
                 RawRow(<<" ", "B", "\n">>, Text(<<"1", "6">>), Num(107)) >>]

\* a latitude off the globe, a latitude that is no number, an empty longitude
StationsDirty ==
    [cols |-> {"STATIONS", "LAT", "LON"},
     rows |-> << RawRow(<<"a", ".">>, Num(95), Num(105)),
                 RawRow(<<"B">>, Text(<<"x">>), Num(106)),
                 RawRow(<<"b">>, Num(10), Blank) >>]

\* a table without a latitude column
StationsNoLat ==
    [cols |-> {"STATIONS", "LON"},
     rows |-> << [STATIONS |-> Text(<<"A", "b">>), LON |-> Num(105)] >>]

Tables == {StationsOK, StationsDirty, StationsNoLat}

FileSystems == UNION {[S -> Tables] : S \in SUBSET AppPaths}

\* the file sets the composition runs start from
ComposeFileSystems ==
    { (MetXlsxData :> StationsOK) @@ (WaterHere :> StationsDirty) @@ (HydroData :> StationsOK),
      (MetCsvHere :> StationsDirty) @@ (WaterHere :> StationsOK) }

MaxSearchLen == 1
SearchChars == {"A", ".", "("}
SearchInputs == SeqsUpTo(SearchChars, MaxSearchLen)

MarkerSizes == {6, 10}
RadiusChoices == {30, 100}
Views == {DefaultView, [lat |-> 2100, lon |-> 10580, zoom |-> 9]}

\* the widget states one user action away from w: one widget that the page shows changes
WidgetChanges(w) ==
    {[w EXCEPT !.disable_clustering = ~@], [w EXCEPT !.show_names = ~@],
     [w EXCEPT !.show_met = ~@], [w EXCEPT !.show_water = ~@], [w EXCEPT !.show_hydro = ~@]}
    \cup {[w EXCEPT !.search = t] : t \in SearchInputs \ {w.search}}
    \cup {[w EXCEPT !.marker_size = n] : n \in MarkerSizes \ {w.marker_size}}
    \cup {[w EXCEPT !.marker_style = m] : m \in MarkerStyles \ {w.marker_style}}
    \cup (IF w.show_met THEN {[w EXCEPT !.met_radius_on = ~@]} ELSE {})
    \cup (IF w.show_met /\ w.met_radius_on
          THEN {[w EXCEPT !.met_rad_km = k] : k \in RadiusChoices \ {w.met_rad_km}}
          ELSE {})

(***************************************************************************)
(* The script                                                              *)
(***************************************************************************)
\* the body of load_and_process_data is explored up to this many executions
MaxLoads == 3

\* one run of the script (lines 85-243) with the widget values w
RunScript(w) ==
    \E got \in (IF CacheHit(cache) THEN {cache} ELSE load_and_process_data(fs)) :
        /\ CacheHit(cache) \/ loads < MaxLoads
        /\ pipeline_ran' = ~CacheHit(cache)
        /\ loads' = IF CacheHit(cache) THEN loads ELSE loads + 1
        /\ cache' = IF CacheHit(cache) THEN cache ELSE got
        /\ event' = "run"
        /\ IF got = <<>>
           THEN \* load_and_process_data raised: st.error, no widget and no map is created
                /\ status' = "load_error"
                /\ result' = <<>>
                /\ widgets' = DefaultWidgets
                /\ scene' = <<>>
                /\ map_init' = <<>>
           ELSE LET live == LiveWidgets(w)
                    made == ComposeLayers(VisibleLayers(live), got[1], live)
                IN  /\ widgets' = live
                    /\ result' = <<made.bundle>>
                    /\ map_init' = <<DefaultView>>
                    /\ status' = IF made.raised THEN "error" ELSE "ok"
                    /\ scene' = made.items

\* the page is opened or rerun with the widgets as they are
Rerun ==
    /\ RunScript(widgets)
    /\ UNCHANGED <<fs, reported, probe>>

\* the user changes one widget of the sidebar, which reruns the script
Interact ==
    /\ event = "run"
    /\ status # "load_error"
    /\ \E w \in WidgetChanges(widgets) : RunScript(w)
    /\ UNCHANGED <<fs, reported, probe>>

\* the user pans or zooms the map; st_folium reports the viewport and the script reruns
Pan ==
    /\ event = "run"
    /\ status = "ok"
    /\ \E v \in Views \ {reported} : reported' = v
    /\ RunScript(widgets)
    /\ UNCHANGED <<fs, probe>>

NoRun ==
    UNCHANGED <<cache, widgets, reported, status, result, pipeline_ran, loads, scene,
                map_init, probe>>

\* a data file appears
AddFile ==
    /\ \E p \in AppPaths \ DOMAIN fs : \E t \in Tables : fs' = (p :> t) @@ fs
    /\ event' = "files"
    /\ NoRun

\* a data file is deleted
RemoveFile ==
    /\ \E p \in DOMAIN fs : fs' = [q \in DOMAIN fs \ {p} |-> fs[q]]
    /\ event' = "files"
    /\ NoRun

\* a data file is rewritten
ModifyFile ==
    /\ \E p \in DOMAIN fs : \E t \in Tables \ {fs[p]} : fs' = [fs EXCEPT ![p] = t]
    /\ event' = "files"
    /\ NoRun

InitSession ==
    /\ cache = <<>>
    /\ widgets = DefaultWidgets
    /\ reported = DefaultView
    /\ event = "start"
    /\ status = "none"
    /\ result = <<>>
    /\ pipeline_ran = FALSE
    /\ loads = 0
    /\ scene = <<>>
    /\ map_init = <<>>
    /\ probe = <<>>

\* the session over files that change under it, the sidebar left alone
InitIngest == fs \in FileSystems /\ InitSession
NextIngest == Rerun \/ AddFile \/ RemoveFile \/ ModifyFile
SpecIngest == InitIngest /\ [][NextIngest]_vars

\* the session over fixed files, the user working the sidebar and the map
InitCompose == fs \in ComposeFileSystems /\ InitSession
NextCompose == Rerun \/ Interact \/ Pan
SpecCompose == InitCompose /\ [][NextCompose]_vars

(***************************************************************************)
(* find_file called on its own, over arbitrary pattern lists               *)
(***************************************************************************)
MaxFiles == 3
MaxPatterns == 2

LocatorNames == { <<"rain", CSV>>, <<"old_", "rain", CSV>>, <<"flow", XLSX>> }
LocatorPaths == {[dir |-> d, name |-> n] : d \in {".", "data", "archive"}, n \in LocatorNames}
LocatorPatterns == { <<STAR, "rain", STAR, CSV>>, <<STAR, "flow", STAR, XLSX>>, <<STAR, "temp", STAR, CSV>> }
PatternLists == SeqsUpTo(LocatorPatterns, MaxPatterns)

\* find_file(patterns) is called and returns
Locate ==
    /\ \E patterns \in PatternLists :
         \E found \in find_file(patterns, SearchDirs, DOMAIN fs) :
            probe' = << [patterns |-> patterns, found |-> found] >>
    /\ UNCHANGED <<fs, cache, widgets, reported, event, status, result, pipeline_ran,
                   loads, scene, map_init>>

InitLocator ==
    /\ \E S \in SUBSET LocatorPaths : Cardinality(S) <= MaxFiles /\ fs = [p \in S |-> EmptyFrame]
    /\ InitSession
NextLocator == Locate
SpecLocator == InitLocator /\ [][NextLocator]_vars

(***************************************************************************)
(* Properties                                                              *)
(***************************************************************************)
PatternOf == [met |-> "meteorology", water |-> "water quality", hydro |-> "hydrology"]
ColumnsOf == [met |-> MetColumns, water |-> WaterColumns, hydro |-> HydroColumns]
ToggleOf == [met |-> "show_met", water |-> "show_water", hydro |-> "show_hydro"]
CategorySet == Range(Categories)

\* the values find_file can return for a category's file
LocatedFor(c, files) == find_file(FlexiblePatterns(PatternOf[c]), SearchDirs, DOMAIN files)

NotLocated(c, files) == <<>> \in LocatedFor(c, files)

\* the located file of category c has no column that renames to name, lat or lon
SchemaBroken(c, files) ==
    \E found \in LocatedFor(c, files) :
        found # <<>> /\ RaisesKeyError(rename(files[found[1]], ColumnsOf[c]))

\* the frames category c has when its located file is renamed and cleaned
CleanedFor(c, files) ==
    {IF found = <<>> THEN EmptyFrame ELSE clean(rename(files[found[1]], ColumnsOf[c])) :
        found \in LocatedFor(c, files)}

IsMarker(item) == item.kind \in {"Marker", "CircleMarker"}

\* everything the scene holds for category c, in order
LayerItems(sc, c) == SelectSeq(sc, LAMBDA item : item.net = Layers[c].label)

\* the station names of the markers drawn for category c, in order
DrawnStations(sc, c) ==
    LET ms == SelectSeq(LayerItems(sc, c), IsMarker)
    IN  [i \in 1..Len(ms) |-> ms[i].station]

StationNames(rows) == [i \in 1..Len(rows) |-> rows[i]["name"]]

\* C1: every station record the pipeline returns, in all three categories, has
\* -90 <= lat <= 90 and -180 <= lon <= 180 (rows with coordinates outside are dropped).
C1_CoordinatesInRange ==
    result # <<>> =>
        \A c \in CategorySet :
            \A i \in 1..Len(result[1][c].rows) :
                LET row == result[1][c].rows[i]
                IN  /\ -90 <= row["lat"] /\ row["lat"] <= 90
                    /\ -180 <= row["lon"] /\ row["lon"] <= 180

\* C2: a run after the input files changed never returns the bundle loaded from the
\* previous files: what a run returns is what the pipeline gives on the files as they are.
C2_RunReflectsFiles ==
    event = "run" => result \in load_and_process_data(fs)

\* C3: after a successful load, a later run over unchanged files returns collections equal
\* by value to the earlier ones and does not execute the pipeline body again.
C3_LoadIdempotent ==
    [][(event = "run" /\ status = "ok" /\ event' = "run")
        => (~pipeline_ran' /\ loads' = loads /\ result' = result /\ cache' = cache)]_vars

C3_Witness ==
    /\ event = "run"
    /\ status = "ok"
    /\ ~pipeline_ran
    /\ result = cache
    /\ \E c \in CategorySet : result[1][c].rows # <<>>

\* C4: find_file returns a match of pattern i in directory j for the smallest (i, j),
\* pattern index first, that has a match, and None exactly when no pair has one.
C4_LocatorPrecedence ==
    probe # <<>> =>
        LET pats == probe[1].patterns
            found == probe[1].found
            hits(i, j) == glob(SearchDirs[j], pats[i], DOMAIN fs)
            pairs == {q \in (1..Len(pats)) \X (1..Len(SearchDirs)) : hits(q[1], q[2]) # {}}
            first(q) == \A r \in pairs : q[1] < r[1] \/ (q[1] = r[1] /\ q[2] <= r[2])
        IN  IF pairs = {} THEN found = <<>>
            ELSE /\ found # <<>>
                 /\ \E q \in pairs : first(q) /\ found[1] \in hits(q[1], q[2])

\* the first pattern matches only in "data" while the second matches in ".": the
\* file of the first pattern is returned
C4_Witness ==
    /\ probe # <<>>
    /\ Len(probe[1].patterns) = 2
    /\ glob(".", probe[1].patterns[1], DOMAIN fs) = {}
    /\ glob("data", probe[1].patterns[1], DOMAIN fs) # {}
    /\ glob(".", probe[1].patterns[2], DOMAIN fs) # {}
    /\ probe[1].found # <<>>
    /\ probe[1].found[1].dir = "data"

\* C5: for every visible category the stations drawn are exactly those whose lowercased
\* name contains the search term as a literal substring; an empty term draws them all.
C5_LiteralSubstringFilter ==
    (event = "run" /\ status # "load_error") =>
        \A c \in Range(VisibleLayers(widgets)) :
            DrawnStations(scene, c) =
                StationNames(SelectSeq(result[1][c].rows,
                    LAMBDA r : \/ search_query(widgets) = <<>>
                               \/ LiteralSearch(search_query(widgets), lower(r["name"]))))

\* C6: switching one category's toggle off, everything else fixed, removes that
\* category's items from the map and leaves the items of the other two categories
\* identical in content and order.
C6_VisibilityIndependent ==
    [][\A c \in CategorySet :
          ( /\ event = "run" /\ event' = "run"
            /\ status # "load_error" /\ status' # "load_error"
            /\ widgets[ToggleOf[c]]
            /\ widgets' = LiveWidgets([widgets EXCEPT ![ToggleOf[c]] = FALSE])
            /\ result' = result )
          => ( /\ LayerItems(scene', c) = <<>>
               /\ \A d \in CategorySet \ {c} : LayerItems(scene', d) = LayerItems(scene, d) )
      ]_vars

\* water quality is switched off over three loaded networks: the other two are drawn
C6_Witness ==
    /\ event = "run"
    /\ status = "ok"
    /\ ~widgets.show_water /\ widgets.show_met /\ widgets.show_hydro
    /\ result[1]["water"].rows # <<>>
    /\ LayerItems(scene, "water") = <<>>
    /\ DrawnStations(scene, "met") # <<>>
    /\ DrawnStations(scene, "hydro") # <<>>

\* C7: composition never changes the bundle: after any runs the cached collections are
\* what the pipeline produced, the frames the run holds equal them, and a run with an
\* empty search term draws every row of every visible category.
C7_BundleUntouched ==
    (event = "run" /\ status # "load_error") =>
        /\ cache \in load_and_process_data(fs)
        /\ result = cache
        /\ (status = "ok" /\ search_query(widgets) = <<>>) =>
              \A c \in Range(VisibleLayers(widgets)) :
                  DrawnStations(scene, c) = StationNames(cache[1][c].rows)

\* a run whose search term filtered rows out of a drawn layer
C7_Witness ==
    /\ event = "run"
    /\ status = "ok"
    /\ search_query(widgets) # <<>>
    /\ result = cache
    /\ \E c \in Range(VisibleLayers(widgets)) :
          /\ DrawnStations(scene, c) # <<>>
          /\ Len(DrawnStations(scene, c)) < Len(cache[1][c].rows)

\* C8: the map of every run after the first starts from the center and zoom the renderer
\* reported at the end of the previous run (the default on the first run).
C8_ViewportResumes ==
    (event = "run" /\ map_init # <<>>) => map_init[1] = reported

\* C9: when a located file lacks a required column, the load does not abort: that
\* category is empty and the other categories are loaded and cleaned.
C9_SchemaFailureConfined ==
    (event = "run" /\ pipeline_ran /\ \E c \in CategorySet : SchemaBroken(c, fs)) =>
        /\ status # "load_error"
        /\ \A c \in CategorySet :
              IF SchemaBroken(c, fs) THEN IsEmpty(result[1][c])
              ELSE result[1][c] \in CleanedFor(c, fs)

\* C10: whichever category files cannot be located, the pipeline completes without
\* raising, a missing category is empty and draws nothing, and a located category is
\* loaded, cleaned and drawn in full.
C10_MissingInputDegrades ==
    (event = "run" /\ pipeline_ran /\ \E c \in CategorySet : NotLocated(c, fs)) =>
        /\ status # "load_error"
        /\ \A c \in CategorySet :
              IF NotLocated(c, fs)
              THEN IsEmpty(result[1][c]) /\ LayerItems(scene, c) = <<>>
              ELSE /\ result[1][c] \in CleanedFor(c, fs)
                   /\ DrawnStations(scene, c) = StationNames(result[1][c].rows)

====
